---- MODULE Spec2Model ----
(***************************************************************************)
(* The client-side data store of the Online Bookstore (src/src/App.jsx):   *)
(* the four documents books, users, currentUser and cart, the handlers     *)
(* that change them, and their JSON copies in localStorage.                *)
(*                                                                         *)
(* Representation.  Identifiers and the text of the price field are        *)
(* sequences of one-character strings, so that uid's concatenation and     *)
(* slice and Number's parse are computed.  Other texts are TLA+ strings.   *)
(* A JavaScript number is an integer count of hundredths (29.99 is 2999).  *)
(* The price of a book carries its JavaScript type beside its value.       *)
(* error is the message of the Error the last handler threw (shown by      *)
(* LoginView and SignupView), alertMsg the text of the alert it raised;    *)
(* "" and <<>> when it did neither.  The routing state (view, editingBook, *)
(* query) is presentation and is not part of the store.                    *)
(***************************************************************************)
EXTENDS Integers, Sequences, FiniteSets, TLC

VARIABLES books, users, currentUser, cart, storage, error, alertMsg

vars == <<books, users, currentUser, cart, storage, error, alertMsg>>

\* Bounds of the model.
MaxBooks == 3
MaxUsers == 3
MaxQty == 2

(***************************************************************************)
(* JavaScript values                                                       *)
(***************************************************************************)
null == [type |-> "null"]

Num(n) == [type |-> "number", num |-> n, str |-> <<>>]
Str(s) == [type |-> "string", num |-> 0, str |-> s]

\* x || y on a price value: 0 and '' are falsy.
Truthy(v) == IF v.type = "number" THEN v.num # 0 ELSE v.str # <<>>

Min(a, b) == IF a < b THEN a ELSE b

\* String.prototype.slice(from, to) for 0 <= from <= to.
Slice(s, from, to) == SubSeq(s, from + 1, Min(to, Len(s)))

DigitVal(c) ==
  CASE c = "0" -> 0 [] c = "1" -> 1 [] c = "2" -> 2 [] c = "3" -> 3
    [] c = "4" -> 4 [] c = "5" -> 5 [] c = "6" -> 6 [] c = "7" -> 7
    [] c = "8" -> 8 [] c = "9" -> 9

RECURSIVE ParseInt(_)
ParseInt(s) ==
  IF s = <<>> THEN 0
  ELSE 10 * ParseInt(SubSeq(s, 1, Len(s) - 1)) + DigitVal(s[Len(s)])

DotPos(s) ==
  IF \E i \in 1..Len(s) : s[i] = "."
  THEN CHOOSE i \in 1..Len(s) : s[i] = "."
  ELSE 0

\* The number denoted by the value of an <input type="number" step="0.01">:
\* '' (which Number takes to 0) or digits with at most two decimals.
StringToNumber(s) ==
  LET d == DotPos(s)
      frac == SubSeq(s, d + 1, Len(s))
  IN IF d = 0 THEN 100 * ParseInt(s)
     ELSE 100 * ParseInt(SubSeq(s, 1, d - 1))
          + (IF Len(frac) = 0 THEN 0
             ELSE IF Len(frac) = 1 THEN 10 * DigitVal(frac[1])
             ELSE 10 * DigitVal(frac[1]) + DigitVal(frac[2]))

\* Number(price)
Number(v) == IF v.type = "number" THEN v ELSE Num(StringToNumber(v.str))

(***************************************************************************)
(* Initial sample data                                                     *)
(***************************************************************************)
SAMPLE_BOOKS ==
  << [id |-> <<"b", "1">>, title |-> "Clean Code", author |-> "Robert C. Martin",
      price |-> Num(2999), available |-> TRUE,
      description |-> "A handbook of agile software craftsmanship."],
     [id |-> <<"b", "2">>, title |-> "The Pragmatic Programmer",
      author |-> "Andrew Hunt & David Thomas",
      price |-> Num(2450), available |-> TRUE,
      description |-> "Tips and practices for pragmatic software development."] >>

SAMPLE_USERS ==
  << [id |-> <<"u", "1">>, name |-> "Alice", email |-> "alice@example.com",
      password |-> "password"],
     [id |-> <<"u", "2">>, name |-> "Bob", email |-> "bob@example.com",
      password |-> "password"] >>

EmptyCart == [k \in {} |-> 0]

LS_KEYS ==
  [BOOKS |-> "ob_books_v1", USERS |-> "ob_users_v1",
   CURRENT_USER |-> "ob_current_user_v1", CART |-> "ob_cart_v1"]

Keys == {LS_KEYS.BOOKS, LS_KEYS.USERS, LS_KEYS.CURRENT_USER, LS_KEYS.CART}

(***************************************************************************)
(* JSON text, as the tree it denotes                                       *)
(***************************************************************************)
JNull == [j |-> "null"]
JNumber(n) == [j |-> "number", v |-> n]
JString(s) == [j |-> "string", v |-> s]
JBool(b) == [j |-> "boolean", v |-> b]
JArray(a) == [j |-> "array", v |-> a]
JObject(o) == [j |-> "object", v |-> o]

\* localStorage.getItem on a key never written, and a text JSON.parse rejects.
NoItem == [j |-> "no item"]
Corrupt == [j |-> "not JSON"]

BookToJSON(b) ==
  JObject([f \in DOMAIN b |->
    CASE f = "price" ->
           IF b[f].type = "number" THEN JNumber(b[f].num) ELSE JString(b[f].str)
      [] f = "available" -> JBool(b[f])
      [] OTHER -> JString(b[f])])

BookFromJSON(t) ==
  [f \in DOMAIN t.v |->
    CASE t.v[f].j = "number" -> Num(t.v[f].v)
      [] t.v[f].j = "string" /\ f = "price" -> Str(t.v[f].v)
      [] OTHER -> t.v[f].v]

RecordToJSON(u) == JObject([f \in DOMAIN u |-> JString(u[f])])
RecordFromJSON(t) == [f \in DOMAIN t.v |-> t.v[f].v]

JSON_stringify(key, val) ==
  CASE key = LS_KEYS.BOOKS ->
         JArray([i \in 1..Len(val) |-> BookToJSON(val[i])])
    [] key = LS_KEYS.USERS ->
         JArray([i \in 1..Len(val) |-> RecordToJSON(val[i])])
    [] key = LS_KEYS.CURRENT_USER ->
         IF val = null THEN JNull ELSE RecordToJSON(val)
    [] key = LS_KEYS.CART ->
         JObject([k \in DOMAIN val |-> JNumber(val[k])])

JSON_parse(key, raw) ==
  CASE key = LS_KEYS.BOOKS ->
         [i \in 1..Len(raw.v) |-> BookFromJSON(raw.v[i])]
    [] key = LS_KEYS.USERS ->
         [i \in 1..Len(raw.v) |-> RecordFromJSON(raw.v[i])]
    [] key = LS_KEYS.CURRENT_USER ->
         IF raw.j = "null" THEN null ELSE RecordFromJSON(raw)
    [] key = LS_KEYS.CART ->
         [k \in DOMAIN raw.v |-> raw.v[k].v]

loadFromStorage(st, key, fallback) ==
  LET raw == st[key]
  IN IF raw = NoItem THEN fallback
     ELSE IF raw = Corrupt THEN fallback
     ELSE JSON_parse(key, raw)

saveToStorage(st, key, val) == [st EXCEPT ![key] = JSON_stringify(key, val)]

\* Math.random().toString(36) is "0." followed by base-36 digits.
uid(prefix, random36) == prefix \o Slice(random36, 2, 9)

(***************************************************************************)
(* Handlers, as functions of the documents they read                       *)
(***************************************************************************)
EMAIL_IN_USE == "Email already in use"
INVALID_CREDENTIALS == "Invalid credentials"
PLEASE_LOGIN == "Please login or signup before checking out."
CHECKOUT_OK(name) ==
  <<"Checkout successful (client-only demo). Thank you, ", name, "!">>

\* Variant: only the newest user is compared.
emailInUse_LastOnly(us, email) == us[Len(us)].email = email

\* users.find((u) => u.email === email)
emailInUse(us, email) == \E i \in 1..Len(us) : us[i].email = email

\* Variant: the password is not compared.
findUser_EmailOnly(us, email, password) ==
  LET hits == {i \in 1..Len(us) : us[i].email = email}
  IN IF hits = {} THEN 0 ELSE CHOOSE i \in hits : \A h \in hits : i <= h

\* users.find((u) => u.email === email && u.password === password):
\* the index of the first match, 0 when there is none.
findUser(us, email, password) ==
  LET hits == {i \in 1..Len(us) : us[i].email = email /\ us[i].password = password}
  IN IF hits = {} THEN 0 ELSE CHOOSE i \in hits : \A h \in hits : i <= h

\* Variant: the whole user record becomes the session.
publicUser_WithPassword(u) == u

\* { id: u.id, name: u.name, email: u.email }
publicUser(u) == [id |-> u.id, name |-> u.name, email |-> u.email]

FormFields == {"title", "author", "price", "description", "available"}

NoInitial == [f \in {} |-> ""]

\* The data BookForm hands to onSave: its useState defaults from `initial`,
\* overwritten by what the user typed (typed: the fields whose onChange ran).
BookForm(initial, typed) ==
  LET has(f) == f \in DOMAIN initial
      default ==
        [title |-> IF has("title") THEN initial.title ELSE "",
         author |-> IF has("author") THEN initial.author ELSE "",
         price |-> IF has("price") /\ Truthy(initial.price)
                   THEN initial.price ELSE Str(<<"0">>),
         description |-> IF has("description") THEN initial.description ELSE "",
         available |-> IF has("available") THEN initial.available ELSE TRUE]
  IN [f \in FormFields |-> IF f \in DOMAIN typed THEN typed[f] ELSE default[f]]

\* { ...b, ...patch }
merge(b, patch) ==
  [f \in DOMAIN b \cup DOMAIN patch |->
     IF f \in DOMAIN patch THEN patch[f] ELSE b[f]]

newBook(data, random36) ==
  [id |-> uid(<<"b">>, random36), title |-> data.title, author |-> data.author,
   price |-> Number(data.price), description |-> data.description,
   available |-> (data.available = TRUE)]

addBook(s, data, random36) == <<newBook(data, random36)>> \o s

\* Variant: the id is not compared.
updateBook_Every(s, id, patch) == [i \in 1..Len(s) |-> merge(s[i], patch)]

updateBook(s, id, patch) ==
  [i \in 1..Len(s) |-> IF s[i].id = id THEN merge(s[i], patch) ELSE s[i]]

deleteBook(s, id) == SelectSeq(s, LAMBDA b : b.id # id)

addToCart(c, bookId, qty) ==
  [k \in DOMAIN c \cup {bookId} |->
     IF k = bookId THEN (IF k \in DOMAIN c THEN c[k] ELSE 0) + qty ELSE c[k]]

\* Variant: the entry is kept with quantity 0.
removeFromCart_Zero(c, bookId) ==
  [k \in DOMAIN c |-> IF k = bookId THEN 0 ELSE c[k]]

removeFromCart(c, bookId) == [k \in DOMAIN c \ {bookId} |-> c[k]]

\* books.find((b) => b.id === bookId): the index of the first match, or 0.
findBook(s, bookId) ==
  LET hits == {i \in 1..Len(s) : s[i].id = bookId}
  IN IF hits = {} THEN 0 ELSE CHOOSE i \in hits : \A h \in hits : i <= h

\* The cart projection, one {book, qty} per entry whose book is found
\* (as a set: the order of Object.entries plays no part here).
cartItems ==
  {[book |-> books[findBook(books, k)], qty |-> cart[k]] :
     k \in {e \in DOMAIN cart : findBook(books, e) # 0}}

(***************************************************************************)
(* The four useEffect hooks: a document that changed is saved              *)
(***************************************************************************)
\* Variant: the cart has no effect hook.
useEffectSync_NoCart ==
  storage' =
    [k \in Keys |->
      CASE k = LS_KEYS.BOOKS ->
             IF books' # books THEN saveToStorage(storage, k, books')[k]
             ELSE storage[k]
        [] k = LS_KEYS.USERS ->
             IF users' # users THEN saveToStorage(storage, k, users')[k]
             ELSE storage[k]
        [] k = LS_KEYS.CURRENT_USER ->
             IF currentUser' # currentUser
             THEN saveToStorage(storage, k, currentUser')[k]
             ELSE storage[k]
        [] k = LS_KEYS.CART -> storage[k]]

useEffectSync ==
  storage' =
    [k \in Keys |->
      CASE k = LS_KEYS.BOOKS ->
             IF books' # books THEN saveToStorage(storage, k, books')[k]
             ELSE storage[k]
        [] k = LS_KEYS.USERS ->
             IF users' # users THEN saveToStorage(storage, k, users')[k]
             ELSE storage[k]
        [] k = LS_KEYS.CURRENT_USER ->
             IF currentUser' # currentUser
             THEN saveToStorage(storage, k, currentUser')[k]
             ELSE storage[k]
        [] k = LS_KEYS.CART ->
             IF cart' # cart THEN saveToStorage(storage, k, cart')[k]
             ELSE storage[k]]

\* The first render: every document is loaded, then every effect runs.
Mount(st) ==
  /\ books = loadFromStorage(st, LS_KEYS.BOOKS, SAMPLE_BOOKS)
  /\ users = loadFromStorage(st, LS_KEYS.USERS, SAMPLE_USERS)
  /\ currentUser = loadFromStorage(st, LS_KEYS.CURRENT_USER, null)
  /\ cart = loadFromStorage(st, LS_KEYS.CART, EmptyCart)
  /\ storage = [k \in Keys |->
       CASE k = LS_KEYS.BOOKS -> JSON_stringify(k, books)
         [] k = LS_KEYS.USERS -> JSON_stringify(k, users)
         [] k = LS_KEYS.CURRENT_USER -> JSON_stringify(k, currentUser)
         [] k = LS_KEYS.CART -> JSON_stringify(k, cart)]
  /\ error = ""
  /\ alertMsg = <<>>

\* A first visit: every key is missing, or holds text that does not parse.
Init == \E st \in [Keys -> {NoItem, Corrupt}] : Mount(st)

(***************************************************************************)
(* Actions: one handler call, with the effects its render schedules        *)
(***************************************************************************)
Signup(name, email, password, random36) ==
  /\ IF emailInUse(users, email)
     THEN /\ error' = EMAIL_IN_USE
          /\ UNCHANGED <<users, currentUser>>
     ELSE LET newUser == [id |-> uid(<<"u">>, random36), name |-> name,
                          email |-> email, password |-> password]
          IN /\ users' = users \o <<newUser>>
             /\ currentUser' = publicUser(newUser)
             /\ error' = ""
  /\ alertMsg' = <<>>
  /\ UNCHANGED <<books, cart>>
  /\ useEffectSync

Login(email, password) ==
  /\ LET found == findUser(users, email, password)
     IN IF found = 0
        THEN /\ error' = INVALID_CREDENTIALS
             /\ UNCHANGED currentUser
        ELSE /\ currentUser' = publicUser(users[found])
             /\ error' = ""
  /\ alertMsg' = <<>>
  /\ UNCHANGED <<books, users, cart>>
  /\ useEffectSync

Logout ==
  /\ currentUser' = null
  /\ error' = ""
  /\ alertMsg' = <<>>
  /\ UNCHANGED <<books, users, cart>>
  /\ useEffectSync

AddBook(data, random36) ==
  /\ books' = addBook(books, data, random36)
  /\ error' = ""
  /\ alertMsg' = <<>>
  /\ UNCHANGED <<users, currentUser, cart>>
  /\ useEffectSync

UpdateBook(id, patch) ==
  /\ books' = updateBook(books, id, patch)
  /\ error' = ""
  /\ alertMsg' = <<>>
  /\ UNCHANGED <<users, currentUser, cart>>
  /\ useEffectSync

\* Variant: the book's cart entry is purged with it.
DeleteBook_Purge(id) ==
  /\ books' = deleteBook(books, id)
  /\ cart' = removeFromCart(cart, id)
  /\ error' = ""
  /\ alertMsg' = <<>>
  /\ UNCHANGED <<users, currentUser>>
  /\ useEffectSync

DeleteBook(id) ==
  /\ books' = deleteBook(books, id)
  /\ error' = ""
  /\ alertMsg' = <<>>
  /\ UNCHANGED <<users, currentUser, cart>>
  /\ useEffectSync

AddToCart(bookId, qty) ==
  /\ cart' = addToCart(cart, bookId, qty)
  /\ error' = ""
  /\ alertMsg' = <<>>
  /\ UNCHANGED <<books, users, currentUser>>
  /\ useEffectSync

RemoveFromCart(bookId) ==
  /\ cart' = removeFromCart(cart, bookId)
  /\ error' = ""
  /\ alertMsg' = <<>>
  /\ UNCHANGED <<books, users, currentUser>>
  /\ useEffectSync

ClearCart ==
  /\ cart' = EmptyCart
  /\ error' = ""
  /\ alertMsg' = <<>>
  /\ UNCHANGED <<books, users, currentUser>>
  /\ useEffectSync

\* Variant: the session is not looked at.
Checkout_NoSessionCheck ==
  /\ cart' = EmptyCart
  /\ alertMsg' = IF currentUser = null THEN <<PLEASE_LOGIN>>
                 ELSE CHECKOUT_OK(currentUser.name)
  /\ error' = ""
  /\ UNCHANGED <<books, users, currentUser>>
  /\ useEffectSync

Checkout ==
  /\ IF currentUser = null
     THEN /\ alertMsg' = <<PLEASE_LOGIN>>
          /\ UNCHANGED cart
     ELSE /\ cart' = EmptyCart
          /\ alertMsg' = CHECKOUT_OK(currentUser.name)
  /\ error' = ""
  /\ UNCHANGED <<books, users, currentUser>>
  /\ useEffectSync

\* The page is loaded again: the state is rebuilt from localStorage.
Reload ==
  /\ books' = loadFromStorage(storage, LS_KEYS.BOOKS, SAMPLE_BOOKS)
  /\ users' = loadFromStorage(storage, LS_KEYS.USERS, SAMPLE_USERS)
  /\ currentUser' = loadFromStorage(storage, LS_KEYS.CURRENT_USER, null)
  /\ cart' = loadFromStorage(storage, LS_KEYS.CART, EmptyCart)
  /\ storage' = [k \in Keys |->
       CASE k = LS_KEYS.BOOKS -> JSON_stringify(k, books')
         [] k = LS_KEYS.USERS -> JSON_stringify(k, users')
         [] k = LS_KEYS.CURRENT_USER -> JSON_stringify(k, currentUser')
         [] k = LS_KEYS.CART -> JSON_stringify(k, cart')]
  /\ error' = ""
  /\ alertMsg' = <<>>

(***************************************************************************)
(* Inputs                                                                  *)
(***************************************************************************)
\* Two values of Math.random().toString(36): one longer than the slice,
\* one shorter.
Random36A == <<"0", ".", "k", "3", "f", "9", "z", "q", "1", "x", "7">>
Random36B == <<"0", ".", "4", "m">>

BookIdInputs == {<<"b", "1">>, <<"b", "2">>, uid(<<"b">>, Random36A)}

\* What a user types into the Add Book form.
AddTyped ==
  << [title |-> "Dune", author |-> "Frank Herbert"],
     [title |-> "Dune", author |-> "Frank Herbert",
      price |-> Str(<<"4", ".", "5">>), available |-> FALSE] >>

\* What a user types into the Edit Book form before Save.
EditTyped == << NoInitial, [price |-> Str(<<"1", "0">>)] >>

\* Patches that name some of a book's fields.
PartialPatches == << [available |-> FALSE], [available |-> TRUE] >>

QtyInputs == {1, 2}

SignupInputs ==
  { [name |-> "Carol", email |-> "carol@example.com", password |-> "secret"],
    [name |-> "Alice B", email |-> "Alice@example.com", password |-> "secret"],
    [name |-> "Mallory", email |-> "alice@example.com", password |-> "secret"] }

LoginInputs ==
  { [email |-> "alice@example.com", password |-> "password"],
    [email |-> "alice@example.com", password |-> "secret"],
    [email |-> "carol@example.com", password |-> "secret"],
    [email |-> "dave@example.com", password |-> "password"] }

(***************************************************************************)
(* Steps: a handler called by the interface or by a client of the store    *)
(***************************************************************************)
SignupStep(inputs, randoms) ==
  \E c \in inputs, r \in randoms :
    /\ emailInUse(users, c.email) \/ Len(users) < MaxUsers
    /\ Signup(c.name, c.email, c.password, r)

LoginStep(inputs) == \E c \in inputs : Login(c.email, c.password)

AddBookStep(typed, randoms) ==
  \E n \in DOMAIN typed, r \in randoms :
    /\ Len(books) < MaxBooks
    /\ AddBook(BookForm(NoInitial, typed[n]), r)

\* Edit on a book's card, then Save: updateBook(editingBook.id, data).
EditBookStep(typed) ==
  \E i \in 1..Len(books), n \in DOMAIN typed :
    UpdateBook(books[i].id, BookForm(books[i], typed[n]))

PatchBookStep(ids, patches) ==
  \E id \in ids, n \in DOMAIN patches : UpdateBook(id, patches[n])

DeleteBookStep(ids) == \E id \in ids : DeleteBook(id)

AddToCartStep(ids, qtys) ==
  \E id \in ids, q \in qtys :
    /\ (IF id \in DOMAIN cart THEN cart[id] ELSE 0) + q <= MaxQty
    /\ AddToCart(id, q)

RemoveFromCartStep(ids) == \E id \in ids : RemoveFromCart(id)

(***************************************************************************)
(* Specifications                                                          *)
(***************************************************************************)
\* The whole store, every operation, on few inputs.
Next ==
  \/ SignupStep({c \in SignupInputs : c.name # "Alice B"}, {Random36A})
  \/ LoginStep({c \in LoginInputs : c.email = "alice@example.com"})
  \/ Logout
  \/ AddBookStep(SubSeq(AddTyped, 2, 2), {Random36A})
  \/ EditBookStep(SubSeq(EditTyped, 2, 2))
  \/ PatchBookStep({<<"b", "1">>}, SubSeq(PartialPatches, 1, 1))
  \/ DeleteBookStep({<<"b", "1">>, uid(<<"b">>, Random36A)})
  \/ AddToCartStep({<<"b", "1">>}, QtyInputs)
  \/ RemoveFromCartStep({<<"b", "1">>})
  \/ ClearCart
  \/ Checkout
  \/ Reload

Spec == Init /\ [][Next]_vars

\* The catalog and the cart.
NextCatalog ==
  \/ AddBookStep(SubSeq(AddTyped, 1, 1), {Random36A, Random36B})
  \/ EditBookStep(EditTyped)
  \/ PatchBookStep(BookIdInputs, PartialPatches)
  \/ DeleteBookStep(BookIdInputs)
  \/ AddToCartStep({<<"b", "1">>}, QtyInputs)
  \/ RemoveFromCartStep({<<"b", "1">>})
  \/ ClearCart
  \/ Reload

SpecCatalog == Init /\ [][NextCatalog]_vars

\* The users, the session and the cart.
NextAuth ==
  \/ SignupStep(SignupInputs, {Random36A, Random36B})
  \/ LoginStep(LoginInputs)
  \/ Logout
  \/ AddToCartStep({<<"b", "1">>, <<"b", "2">>}, QtyInputs)
  \/ RemoveFromCartStep({<<"b", "1">>, <<"b", "2">>})
  \/ ClearCart
  \/ Checkout
  \/ Reload

SpecAuth == Init /\ [][NextAuth]_vars

(***************************************************************************)
(* Properties                                                              *)
(***************************************************************************)
Randoms == {Random36A, Random36B}
CartIdInputs == BookIdInputs

BookIds(s) == {s[i].id : i \in 1..Len(s)}

\* C1: every entry of the cart has an integer quantity of at least 1; no
\* entry is kept with quantity 0 or less.
C1_CartQuantitiesPositive ==
  \A k \in DOMAIN cart : cart[k] \in Int /\ cart[k] >= 1

C1_Witness ==
  /\ <<"b", "1">> \in DOMAIN cart
  /\ cart[<<"b", "1">>] >= 2
  /\ currentUser # null

\* C2: every book's price is a number, after AddBook and after UpdateBook
\* with the patch the book form produces.
C2_PriceIsNumber == \A i \in 1..Len(books) : books[i].price.type = "number"

\* C3: Signup with an email equal to that of an existing user reports the
\* duplicate-email error and changes neither users nor the session.
C3_DuplicateSignupRejected ==
  [][\A c \in SignupInputs, r \in Randoms :
       (/\ Signup(c.name, c.email, c.password, r)
        /\ \E i \in 1..Len(users) : users[i].email = c.email)
       => (/\ error' = EMAIL_IN_USE
           /\ users' = users
           /\ currentUser' = currentUser)]_vars

C3_Witness ==
  /\ error = EMAIL_IN_USE
  /\ currentUser # null
  /\ Len(users) = Len(SAMPLE_USERS)

\* C4: Checkout without a session leaves the cart as it is and prompts for
\* login; Checkout with a session empties the cart and changes neither
\* books nor users nor the session.
C4_Checkout ==
  [][Checkout =>
       IF currentUser = null
       THEN cart' = cart /\ alertMsg' = <<PLEASE_LOGIN>>
       ELSE /\ cart' = EmptyCart
            /\ books' = books
            /\ users' = users
            /\ currentUser' = currentUser]_vars

C4_Witness ==
  /\ alertMsg = <<PLEASE_LOGIN>>
  /\ currentUser = null
  /\ DOMAIN cart = {<<"b", "1">>, <<"b", "2">>}

\* C5: Login with a pair that matches no user on both fields reports
\* invalid credentials and changes neither the session nor users.
C5_FailedLoginKeepsSession ==
  [][\A c \in LoginInputs :
       (/\ Login(c.email, c.password)
        /\ ~ \E i \in 1..Len(users) :
               users[i].email = c.email /\ users[i].password = c.password)
       => (/\ error' = INVALID_CREDENTIALS
           /\ currentUser' = currentUser
           /\ users' = users)]_vars

C5_Witness == error = INVALID_CREDENTIALS /\ currentUser # null

\* What UpdateBook(id, patch) may change: on each book with that id the
\* fields the patch names, and nothing else.
C6_Frame(id, patch) ==
  /\ Len(books') = Len(books)
  /\ \A i \in 1..Len(books) :
       IF books[i].id = id
       THEN /\ DOMAIN books'[i] = DOMAIN books[i] \cup DOMAIN patch
            /\ \A f \in DOMAIN books'[i] :
                 books'[i][f] = IF f \in DOMAIN patch THEN patch[f] ELSE books[i][f]
       ELSE books'[i] = books[i]
  /\ UNCHANGED <<users, currentUser, cart>>

\* C6: UpdateBook(id, patch) changes only the fields the patch names, only
\* on the book with that id, and keeps the order; with no such book the
\* sequence is unchanged.
C6_UpdateBookFrame ==
  [][/\ \A id \in BookIdInputs, n \in DOMAIN PartialPatches :
          UpdateBook(id, PartialPatches[n]) =>
            /\ C6_Frame(id, PartialPatches[n])
            /\ (id \notin BookIds(books) => books' = books)
     /\ \A i \in 1..Len(books), n \in DOMAIN EditTyped :
          UpdateBook(books[i].id, BookForm(books[i], EditTyped[n])) =>
            C6_Frame(books[i].id, BookForm(books[i], EditTyped[n]))]_vars

C6_Witness ==
  /\ Len(books) = 3
  /\ books[1].available
  /\ books[2] = [SAMPLE_BOOKS[1] EXCEPT !.available = FALSE]
  /\ books[3] = SAMPLE_BOOKS[2]

\* The number of books among the first i whose id is not the given one.
C7_Kept(i, id) == Cardinality({j \in 1..i : books[j].id # id})

\* The cart projection has an item, with the entry's quantity, for exactly
\* the entries whose book exists.
C7_Projection ==
  /\ \A k \in DOMAIN cart :
       IF k \in BookIds(books)
       THEN \E it \in cartItems : it.book.id = k /\ it.qty = cart[k]
       ELSE ~ \E it \in cartItems : it.book.id = k
  /\ \A it \in cartItems :
       it.book.id \in DOMAIN cart /\ \E i \in 1..Len(books) : books[i] = it.book

\* C7: DeleteBook(id) removes only the books with that id and leaves the
\* cart as it is; AddToCart(id) creates or increments the entry whether or
\* not the book exists; the projection holds no item for an entry whose
\* book is gone, and that entry stays in the cart.
C7_DeleteLeavesCart ==
  [][/\ \A id \in BookIdInputs :
          DeleteBook(id) =>
            /\ cart' = cart
            /\ Len(books') = C7_Kept(Len(books), id)
            /\ \A i \in 1..Len(books) :
                 books[i].id # id => books'[C7_Kept(i, id)] = books[i]
     /\ \A id \in CartIdInputs, q \in QtyInputs :
          AddToCart(id, q) =>
            /\ DOMAIN cart' = DOMAIN cart \cup {id}
            /\ cart'[id] = (IF id \in DOMAIN cart THEN cart[id] ELSE 0) + q
            /\ \A k \in DOMAIN cart \ {id} : cart'[k] = cart[k]
     /\ C7_Projection']_vars

C7_Witness ==
  /\ <<"b", "1">> \in DOMAIN cart
  /\ <<"b", "1">> \notin BookIds(books)
  /\ cartItems = {}
  /\ Len(books) = 2

\* C8: no two books have the same id, AddBook gives the new book an id no
\* existing book has, and no operation changes the id of an existing book.
C8_BookIdsUnique ==
  [][/\ \A i, j \in 1..Len(books') : books'[i].id = books'[j].id => i = j
     /\ \A n \in DOMAIN AddTyped, r \in Randoms :
          AddBook(BookForm(NoInitial, AddTyped[n]), r) =>
            books'[1].id \notin BookIds(books)
     /\ Len(books') = Len(books) =>
          \A i \in 1..Len(books) : books'[i].id = books[i].id]_vars

C9_Document(k) ==
  CASE k = LS_KEYS.BOOKS -> books
    [] k = LS_KEYS.USERS -> users
    [] k = LS_KEYS.CURRENT_USER -> currentUser
    [] k = LS_KEYS.CART -> cart

C9_Fallback(k) ==
  CASE k = LS_KEYS.BOOKS -> SAMPLE_BOOKS
    [] k = LS_KEYS.USERS -> SAMPLE_USERS
    [] k = LS_KEYS.CURRENT_USER -> null
    [] k = LS_KEYS.CART -> EmptyCart

\* C9: once an operation and its effects are done, each of the four keys
\* holds the JSON text of its document, and loadFromStorage gives back
\* exactly that document.
C9_Persisted ==
  \A k \in Keys :
    /\ storage[k] = JSON_stringify(k, C9_Document(k))
    /\ loadFromStorage(storage, k, C9_Fallback(k)) = C9_Document(k)

C9_Witness ==
  /\ Len(users) = 3
  /\ currentUser # null
  /\ cart # EmptyCart
  /\ Len(books) = 3
  /\ \E i \in 1..Len(books) : books[i].price.type = "string"
  /\ \E i \in 1..Len(books) : ~ books[i].available

C10_SessionOfRecord ==
  \/ currentUser = null
  \/ /\ DOMAIN currentUser = {"id", "name", "email"}
     /\ \E i \in 1..Len(users) :
          /\ users[i].id = currentUser.id
          /\ users[i].name = currentUser.name
          /\ users[i].email = currentUser.email

\* C10: the session is absent or the {id, name, email} projection of a
\* user in users: the new user after a successful Signup, the matched
\* user after a successful Login, absent after Logout.
C10_Session ==
  [][/\ C10_SessionOfRecord'
     /\ \A c \in SignupInputs, r \in Randoms :
          (/\ Signup(c.name, c.email, c.password, r)
           /\ ~ \E i \in 1..Len(users) : users[i].email = c.email)
          => /\ Len(users') = Len(users) + 1
             /\ users'[Len(users')].email = c.email
             /\ currentUser' = [id |-> users'[Len(users')].id,
                                name |-> c.name, email |-> c.email]
     /\ \A c \in LoginInputs :
          (/\ Login(c.email, c.password)
           /\ \E i \in 1..Len(users) :
                users[i].email = c.email /\ users[i].password = c.password)
          => \E i \in 1..Len(users) :
               /\ users[i].email = c.email /\ users[i].password = c.password
               /\ currentUser' = [id |-> users[i].id, name |-> users[i].name,
                                  email |-> users[i].email]
     /\ Logout => currentUser' = null]_vars

C10_Witness ==
  /\ Len(users) = 3
  /\ currentUser # null
  /\ currentUser.email = "carol@example.com"
  /\ users[3].password = "secret"

====
